---------------------------- MODULE Spec2Model ----------------------------
(***************************************************************************)
(* A model of the bash-style parameter expansion library (package env).    *)
(*                                                                         *)
(* Text is a sequence of one-character strings.  Positions are the Go      *)
(* code's 0-based byte positions: At(s, i) is s[i], Slice(s, a, b) is      *)
(* s[a:b].  An index or slice outside the text is a run-time panic of the  *)
(* Go program; every operator that can panic says so in its result.        *)
(***************************************************************************)
EXTENDS Integers, Sequences, FiniteSets, TLC

VARIABLES
    s,       \* the text handed to the operation under way
    e,       \* the Environment: a function from the names that are set to values
    args,    \* os.Args
    node,    \* the expansion being evaluated, or the parser's result
    offset,  \* expand's cursor, or the position argument of a scanner call
    next,    \* the expansion start findNextStart last returned (-1: none)
    parts,   \* expand's parts, already joined
    ret,     \* the value the operation returned
    pc       \* "call"/"loop" before and during the operation, then how it ended

vars == <<s, e, args, node, offset, next, parts, ret, pc>>

----------------------------------------------------------------------------
(* Strings and slices *)

At(str, i) == str[i + 1]

Slice(str, a, b) == SubSeq(str, a + 1, b)

SliceFrom(str, a) == SubSeq(str, a + 1, Len(str))

\* All sequences over alphabet of length at most n.
RECURSIVE SeqsUpTo(_, _)
SeqsUpTo(alphabet, n) ==
    IF n = 0 THEN {<<>>}
    ELSE LET shorter == SeqsUpTo(alphabet, n - 1)
         IN  shorter \cup {Append(w, c) : w \in shorter, c \in alphabet}

Upper == {"A", "B", "C", "D", "E", "F", "G", "H", "I", "J", "K", "L", "M",
          "N", "O", "P", "Q", "R", "S", "T", "U", "V", "W", "X", "Y", "Z"}

Lower == {"a", "b", "c", "d", "e", "f", "g", "h", "i", "j", "k", "l", "m",
          "n", "o", "p", "q", "r", "s", "t", "u", "v", "w", "x", "y", "z"}

Digits == {"0", "1", "2", "3", "4", "5", "6", "7", "8", "9"}

----------------------------------------------------------------------------
(* Scanner *)

RECURSIVE findNextStartLoop(_, _, _)
findNextStartLoop(str, p, state) ==
    IF p >= Len(str) THEN -1
    ELSE IF state = 0
         THEN IF At(str, p) = "$" THEN p
              ELSE IF At(str, p) = "\\" THEN findNextStartLoop(str, p + 1, 1)
              ELSE findNextStartLoop(str, p + 1, 0)
         ELSE findNextStartLoop(str, p + 1, 0)

\* The scan with the backslash state left out.
findNextStartNoEscape(str, p) ==
    LET hits == {i \in p..(Len(str) - 1) : At(str, i) = "$"}
    IN  IF hits = {} THEN -1 ELSE CHOOSE i \in hits : \A j \in hits : i <= j

findNextStart(str, p) == findNextStartLoop(str, p, 0)

nameConstituent(c) == c \in Upper \cup Lower \cup Digits

parameterConstituent(c) == c \in Digits

RECURSIVE skipToNext(_, _, _)
skipToNext(str, charset, i) ==
    IF i >= Len(str) THEN -1
    ELSE IF At(str, i) \in charset THEN i
    ELSE skipToNext(str, charset, i + 1)

RECURSIVE findNextEndLoop(_, _, _)
findNextEndLoop(str, p, state) ==
    IF p >= Len(str) THEN Len(str)
    ELSE CASE state = 0 ->
                findNextEndLoop(str, p + 1,
                    IF At(str, p) = "$" THEN 0
                    ELSE IF At(str, p) = "{" THEN 1
                    ELSE IF At(str, p) \in Digits THEN 3
                    ELSE 2)
           [] state = 1 ->
                IF At(str, p) = "}" THEN p + 1
                ELSE findNextEndLoop(str, p + 1, 1)
           [] state = 2 ->
                IF ~nameConstituent(At(str, p)) THEN p
                ELSE findNextEndLoop(str, p + 1, 2)
           [] OTHER -> p

findNextEnd(str, p) == findNextEndLoop(str, p, 0)

----------------------------------------------------------------------------
(* Library routines the package calls: strconv.Atoi, fmt.Sprintf("%d"),    *)
(* filepath.Match (Unix build: Separator is "/", backslash escapes).       *)

\* The printable ASCII characters in code order, from 32 (space) to 126
\* (code 96, the grave accent, cannot be written in a TLA+ string: "grave").
Ascii ==
    <<" ", "!", "\"", "#", "$", "%", "&", "'", "(", ")", "*", "+", ",", "-", ".", "/",
      "0", "1", "2", "3", "4", "5", "6", "7", "8", "9", ":", ";", "<", "=", ">", "?",
      "@", "A", "B", "C", "D", "E", "F", "G", "H", "I", "J", "K", "L", "M", "N", "O",
      "P", "Q", "R", "S", "T", "U", "V", "W", "X", "Y", "Z", "[", "\\", "]", "^", "_",
      "grave", "a", "b", "c", "d", "e", "f", "g", "h", "i", "j", "k", "l", "m", "n", "o",
      "p", "q", "r", "s", "t", "u", "v", "w", "x", "y", "z", "{", "|", "}", "~">>

Code(c) == 31 + (CHOOSE i \in 1..Len(Ascii) : Ascii[i] = c)

DigitValue(c) == Code(c) - Code("0")

RECURSIVE DecimalValue(_)
DecimalValue(str) ==
    IF str = <<>> THEN 0
    ELSE 10 * DecimalValue(SubSeq(str, 1, Len(str) - 1)) + DigitValue(str[Len(str)])

\* strconv.Atoi: an optional sign, then one or more decimal digits.
Atoi(str) ==
    LET signed == str # <<>> /\ str[1] \in {"+", "-"}
        digits == IF signed THEN Tail(str) ELSE str
    IN  IF digits = <<>> \/ \E i \in 1..Len(digits) : digits[i] \notin Digits
        THEN [ok |-> FALSE, n |-> 0]
        ELSE [ok |-> TRUE,
              n  |-> IF signed /\ str[1] = "-" THEN 0 - DecimalValue(digits)
                     ELSE DecimalValue(digits)]

\* fmt.Sprintf("%d", n) for n >= 0.
RECURSIVE Sprintf_d(_)
Sprintf_d(n) ==
    IF n < 10 THEN <<Ascii[Code("0") - 31 + n]>>
    ELSE Append(Sprintf_d(n \div 10), Ascii[Code("0") - 31 + (n % 10)])

Separator == "/"

RECURSIVE scanChunkEnd(_, _, _)
scanChunkEnd(pattern, i, inrange) ==
    IF i >= Len(pattern) THEN i
    ELSE LET c == At(pattern, i)
         IN  IF c = "\\"
             THEN scanChunkEnd(pattern, (IF i + 1 < Len(pattern) THEN i + 1 ELSE i) + 1, inrange)
             ELSE IF c = "[" THEN scanChunkEnd(pattern, i + 1, TRUE)
             ELSE IF c = "]" THEN scanChunkEnd(pattern, i + 1, FALSE)
             ELSE IF c = "*" /\ ~inrange THEN i
             ELSE scanChunkEnd(pattern, i + 1, inrange)

RECURSIVE skipStars(_)
skipStars(pattern) ==
    IF pattern # <<>> /\ pattern[1] = "*" THEN skipStars(Tail(pattern)) ELSE pattern

scanChunk(pattern) ==
    LET p == skipStars(pattern)
        i == scanChunkEnd(p, 0, FALSE)
    IN  [star  |-> pattern # <<>> /\ pattern[1] = "*",
         chunk |-> Slice(p, 0, i),
         rest  |-> SliceFrom(p, i)]

\* getEsc: one (possibly escaped) character of a character class.
getEsc(chunk) ==
    IF chunk = <<>> \/ chunk[1] \in {"-", "]"}
    THEN [err |-> TRUE, r |-> 0, nchunk |-> <<>>]
    ELSE LET c == IF chunk[1] = "\\" THEN Tail(chunk) ELSE chunk
         IN  IF c = <<>> THEN [err |-> TRUE, r |-> 0, nchunk |-> <<>>]
             ELSE [err    |-> Tail(c) = <<>>,
                   r      |-> Code(c[1]),
                   nchunk |-> Tail(c)]

\* The ranges of one character class, up to and including its closing "]".
RECURSIVE classRanges(_, _, _, _)
classRanges(chunk, r, match, nrange) ==
    IF chunk # <<>> /\ chunk[1] = "]" /\ nrange > 0
    THEN [err |-> FALSE, chunk |-> Tail(chunk), match |-> match]
    ELSE LET lo == getEsc(chunk)
         IN  IF lo.err THEN [err |-> TRUE, chunk |-> <<>>, match |-> FALSE]
             ELSE IF lo.nchunk[1] = "-"
                  THEN LET hi == getEsc(Tail(lo.nchunk))
                       IN  IF hi.err THEN [err |-> TRUE, chunk |-> <<>>, match |-> FALSE]
                           ELSE classRanges(hi.nchunk, r,
                                            match \/ (lo.r <= r /\ r <= hi.r), nrange + 1)
                  ELSE classRanges(lo.nchunk, r, match \/ lo.r = r, nrange + 1)

ChunkBad == [rest |-> <<>>, ok |-> FALSE, err |-> TRUE]

RECURSIVE matchChunkLoop(_, _, _)
matchChunkLoop(chunk, str, wasFailed) ==
    IF chunk = <<>>
    THEN IF wasFailed THEN [rest |-> <<>>, ok |-> FALSE, err |-> FALSE]
         ELSE [rest |-> str, ok |-> TRUE, err |-> FALSE]
    ELSE LET failed == wasFailed \/ str = <<>>
             after  == IF failed THEN str ELSE Tail(str)
         IN  CASE chunk[1] = "[" ->
                    LET r       == IF failed THEN 0 ELSE Code(str[1])
                        negated == Len(chunk) > 1 /\ chunk[2] = "^"
                        body    == IF negated THEN Tail(Tail(chunk)) ELSE Tail(chunk)
                        cls     == classRanges(body, r, FALSE, 0)
                    IN  IF cls.err THEN ChunkBad
                        ELSE matchChunkLoop(cls.chunk, after, failed \/ cls.match = negated)
               [] chunk[1] = "?" ->
                    matchChunkLoop(Tail(chunk), after,
                                   failed \/ (~failed /\ str[1] = Separator))
               [] chunk[1] = "\\" ->
                    IF Tail(chunk) = <<>> THEN ChunkBad
                    ELSE matchChunkLoop(Tail(Tail(chunk)), after,
                                        failed \/ (~failed /\ chunk[2] # str[1]))
               [] OTHER ->
                    matchChunkLoop(Tail(chunk), after,
                                   failed \/ (~failed /\ chunk[1] # str[1]))

matchChunk(chunk, str) == matchChunkLoop(chunk, str, FALSE)

\* After a failed match: the rest of the pattern must still be well formed.
RECURSIVE checkRest(_)
checkRest(pattern) ==
    IF pattern = <<>> THEN [matched |-> FALSE, err |-> FALSE]
    ELSE LET sc == scanChunk(pattern)
         IN  IF matchChunk(sc.chunk, <<>>).err THEN [matched |-> FALSE, err |-> TRUE]
             ELSE checkRest(sc.rest)

RECURSIVE Match(_, _)
RECURSIVE starLoop(_, _, _, _)
starLoop(chunk, rest, name, i) ==
    IF ~(i < Len(name) /\ At(name, i) # Separator) THEN checkRest(rest)
    ELSE LET m == matchChunk(chunk, SliceFrom(name, i + 1))
         IN  IF m.ok
             THEN IF rest = <<>> /\ m.rest # <<>> THEN starLoop(chunk, rest, name, i + 1)
                  ELSE Match(rest, m.rest)
             ELSE IF m.err THEN [matched |-> FALSE, err |-> TRUE]
             ELSE starLoop(chunk, rest, name, i + 1)

Match(pattern, name) ==
    IF pattern = <<>> THEN [matched |-> name = <<>>, err |-> FALSE]
    ELSE LET sc == scanChunk(pattern)
         IN  IF sc.star /\ sc.chunk = <<>>
             THEN [matched |-> \A i \in 1..Len(name) : name[i] # Separator, err |-> FALSE]
             ELSE LET m == matchChunk(sc.chunk, name)
                  IN  IF m.ok /\ (m.rest = <<>> \/ sc.rest # <<>>) THEN Match(sc.rest, m.rest)
                      ELSE IF m.err THEN [matched |-> FALSE, err |-> TRUE]
                      ELSE IF sc.star THEN starLoop(sc.chunk, sc.rest, name, 0)
                      ELSE checkRest(sc.rest)

----------------------------------------------------------------------------
(* Environment (the in-memory map) *)

Get(env, name) ==
    IF name \in DOMAIN env THEN [v |-> env[name], ok |-> TRUE]
    ELSE [v |-> <<>>, ok |-> FALSE]

Set(env, name, value) ==
    [n \in (DOMAIN env) \cup {name} |-> IF n = name THEN value ELSE env[n]]

----------------------------------------------------------------------------
(* Expansions and their expand methods.  An evaluation yields the text and *)
(* the environment it leaves behind.                                       *)

positional(p) == [type |-> "positional", index |-> p]

constant(text) == [type |-> "constant", text |-> text]

normal(name) == [type |-> "normal", name |-> name]

indirect(name) == [type |-> "indirect", name |-> name]

defaulted(name, word, unset) ==
    [type |-> "defaulted", name |-> name, word |-> word, unset |-> unset]

assign(name, word, unset) ==
    [type |-> "assign", name |-> name, word |-> word, unset |-> unset]

alternate(name, word, unset) ==
    [type |-> "alternate", name |-> name, word |-> word, unset |-> unset]

offsetExp(name, off, len, useLen) ==
    [type |-> "offset", name |-> name, offset |-> off, length |-> len, useLen |-> useLen]

length(name) == [type |-> "length", name |-> name]

match(name, pattern, longest, suffix) ==
    [type |-> "match", name |-> name, pattern |-> pattern,
     longest |-> longest, suffix |-> suffix]

Out(text, env) == [out |-> text, env |-> env]

RECURSIVE expansion_expand(_, _, _)

positional_expand(p, env, argv) ==
    IF p.index >= Len(argv) THEN Out(<<>>, env) ELSE Out(argv[p.index + 1], env)

constant_expand(c, env) == Out(c.text, env)

normal_expand(n, env) == Out(Get(env, n.name).v, env)

indirect_expand(i, env) ==
    LET nxt == Get(env, i.name)
    IN  IF ~nxt.ok THEN Out(<<>>, env) ELSE Out(Get(env, nxt.v).v, env)

\* defaulted.expand with the unset flag ignored, as assign.expand does.
defaulted_expand_unsetOnly(d, env, argv) ==
    IF ~Get(env, d.name).ok THEN expansion_expand(d.word, env, argv)
    ELSE Out(Get(env, d.name).v, env)

defaulted_expand(d, env, argv) ==
    LET got == Get(env, d.name)
    IN  IF ~got.ok THEN expansion_expand(d.word, env, argv)
        ELSE IF ~d.unset /\ got.v = <<>> THEN expansion_expand(d.word, env, argv)
        ELSE Out(got.v, env)

assign_expand(a, env, argv) ==
    LET got == Get(env, a.name)
    IN  IF ~got.ok
        THEN LET w == expansion_expand(a.word, env, argv)
             IN  Out(w.out, Set(w.env, a.name, w.out))
        ELSE Out(got.v, env)

alternate_expand(a, env, argv) ==
    LET got == Get(env, a.name)
    IN  IF ~got.ok THEN Out(<<>>, env)
        ELSE IF got.v = <<>> /\ ~a.unset THEN Out(<<>>, env)
        ELSE expansion_expand(a.word, env, argv)

\* offset.expand that counts a length that is not positive from the
\* beginning of the substring, as it does a positive one.
offset_expand_lengthFromBegin(o, env) ==
    LET got  == Get(env, o.name)
        l    == Len(got.v)
        b    == IF o.offset < 0 THEN l + o.offset ELSE o.offset
        end0 == IF o.useLen THEN b + o.length ELSE l
        end  == IF end0 > l THEN l ELSE end0
    IN  IF ~got.ok THEN Out(<<>>, env)
        ELSE IF b < 0 THEN Out(<<>>, env)
        ELSE IF end < b THEN Out(<<>>, env)
        ELSE Out(Slice(got.v, b, end), env)

offset_expand(o, env) ==
    LET got  == Get(env, o.name)
        l    == Len(got.v)
        b    == IF o.offset < 0 THEN l + o.offset ELSE o.offset
        end0 == IF o.useLen THEN (IF o.length > 0 THEN b + o.length ELSE l + o.length)
                ELSE l
        end  == IF end0 > l THEN l ELSE end0
    IN  IF ~got.ok THEN Out(<<>>, env)
        ELSE IF b < 0 THEN Out(<<>>, env)
        ELSE IF end < b THEN Out(<<>>, env)
        ELSE Out(Slice(got.v, b, end), env)

length_expand(l, env) == Out(Sprintf_d(Len(Get(env, l.name).v)), env)

\* One of match.expand's four loops: ascending from o while o < l, or
\* descending from o while o >= 0; the glob is tried on v[o:] (suffix) or
\* v[:o] (prefix) and the first hit returns the other part of v.
RECURSIVE matchLoop(_, _, _, _)
matchLoop(m, v, o, ascending) ==
    IF (ascending /\ ~(o < Len(v))) \/ (~ascending /\ ~(o >= 0)) THEN v
    ELSE LET r == Match(m.pattern, IF m.suffix THEN SliceFrom(v, o) ELSE Slice(v, 0, o))
         IN  IF r.err THEN <<>>
             ELSE IF r.matched THEN (IF m.suffix THEN Slice(v, 0, o) ELSE SliceFrom(v, o))
             ELSE matchLoop(m, v, IF ascending THEN o + 1 ELSE o - 1, ascending)

match_expand(m, env) ==
    LET got == Get(env, m.name)
        l   == Len(got.v)
    IN  IF ~got.ok THEN Out(<<>>, env)
        ELSE IF m.suffix
             THEN IF m.longest THEN Out(matchLoop(m, got.v, 0, TRUE), env)
                  ELSE Out(matchLoop(m, got.v, l, FALSE), env)
             ELSE IF m.longest THEN Out(matchLoop(m, got.v, l, FALSE), env)
                  ELSE Out(matchLoop(m, got.v, 0, TRUE), env)

expansion_expand(x, env, argv) ==
    CASE x.type = "positional" -> positional_expand(x, env, argv)
      [] x.type = "constant"   -> constant_expand(x, env)
      [] x.type = "normal"     -> normal_expand(x, env)
      [] x.type = "indirect"   -> indirect_expand(x, env)
      [] x.type = "defaulted"  -> defaulted_expand(x, env, argv)
      [] x.type = "assign"     -> assign_expand(x, env, argv)
      [] x.type = "alternate"  -> alternate_expand(x, env, argv)
      [] x.type = "offset"     -> offset_expand(x, env)
      [] x.type = "length"     -> length_expand(x, env)
      [] x.type = "match"      -> match_expand(x, env)

----------------------------------------------------------------------------
(* Pattern translator *)

RECURSIVE manglePatternLoop(_, _)
manglePatternLoop(pattern, state) ==
    IF pattern = <<>> THEN <<>>
    ELSE IF state = 0
         THEN <<pattern[1]>> \o manglePatternLoop(Tail(pattern), IF pattern[1] = "[" THEN 1 ELSE 0)
         ELSE <<IF pattern[1] = "!" THEN "^" ELSE pattern[1]>> \o manglePatternLoop(Tail(pattern), 0)

manglePattern(pattern) == manglePatternLoop(pattern, 0)

----------------------------------------------------------------------------
(* Expansion parser.  A result is the expansion returned and the error     *)
(* ("nil" when there is none), or a panic.                                 *)

Parsed(x) == [kind |-> "ok", exp |-> x, err |-> "nil"]

ParseError(x, err) == [kind |-> "err", exp |-> x, err |-> err]

Panic == [kind |-> "panic", exp |-> constant(<<>>), err |-> "index out of range"]

failed == <<"f", "a", "i", "l", "e", "d">>

ErrSwitch == "Expected to have been caught by a switch statement"

ErrFirst == "Unexpected first character"

ErrSyntax == "strconv.Atoi: invalid syntax"

\* for s[i] == c { i++ }: where the loop stops, or -1 when it runs off the text.
RECURSIVE skipWhile(_, _, _)
skipWhile(str, i, c) ==
    IF i >= Len(str) THEN -1
    ELSE IF At(str, i) = c THEN skipWhile(str, i + 1, c)
    ELSE i

\* for s[end] != '}' { end++ }: where the loop stops, or -1 when it runs off the text.
RECURSIVE skipUntilBrace(_, _)
skipUntilBrace(str, end) ==
    IF end >= Len(str) THEN -1
    ELSE IF At(str, end) # "}" THEN skipUntilBrace(str, end + 1)
    ELSE end

RECURSIVE parseExpansion(_, _)

\* rv.word, err = parseExpansion(s, i): the result of a make function of
\* type ty whose word is the nested expansion parsed as inner.
nestedWord(inner, ty, name, unsetOnly) ==
    IF inner.kind = "panic" THEN Panic
    ELSE [kind |-> inner.kind,
          exp  |-> [type |-> ty, name |-> name, word |-> inner.exp, unset |-> unsetOnly],
          err  |-> inner.err]

makeDefaulted(str, i, name, unsetOnly) ==
    LET rv(word) == defaulted(name, word, unsetOnly)
        end      == skipUntilBrace(str, i)
    IN  IF i >= Len(str) THEN Panic
        ELSE IF At(str, i) = "$" THEN nestedWord(parseExpansion(str, i), "defaulted", name, unsetOnly)
        ELSE IF end = -1 THEN Panic
        ELSE Parsed(rv(constant(Slice(str, i, end))))

makeAssigned(str, i, name, unsetOnly) ==
    LET rv(word) == assign(name, word, unsetOnly)
        end      == findNextEnd(str, i)
    IN  IF i >= Len(str) THEN Panic
        ELSE IF At(str, i) = "$" THEN nestedWord(parseExpansion(str, i), "assign", name, unsetOnly)
        ELSE Parsed(rv(constant(Slice(str, i, end))))

makeAlternated(str, i, name, unsetOnly) ==
    LET rv(word) == alternate(name, word, unsetOnly)
        end      == findNextEnd(str, i)
    IN  IF i >= Len(str) THEN Panic
        ELSE IF At(str, i) = "$" THEN nestedWord(parseExpansion(str, i), "alternate", name, unsetOnly)
        ELSE Parsed(rv(constant(Slice(str, i, end))))

\* The optional length of an offset expansion, from the ":" at position nxt.
makeOffsetedLength(str, nxt, name, n) ==
    LET i   == skipWhile(str, nxt + 1, " ")
        end == skipToNext(str, {"}"}, i)
        len == Atoi(Slice(str, i, end))
    IN  IF i = -1 THEN Panic
        ELSE IF end = -1 THEN Panic
        ELSE IF ~len.ok THEN ParseError(offsetExp(name, n, 0, FALSE), ErrSyntax)
        ELSE Parsed(offsetExp(name, n, len.n, TRUE))

makeOffseted(str, i0, name) ==
    LET i1  == skipWhile(str, i0, ":")
        i   == IF i1 = -1 THEN -1 ELSE skipWhile(str, i1, " ")
        nxt == skipToNext(str, {":", "}"}, i)
        off == Atoi(Slice(str, i, nxt))
    IN  IF i = -1 THEN Panic
        ELSE IF nxt = -1 THEN Panic
        ELSE IF ~off.ok THEN ParseError(offsetExp(name, 0, 0, FALSE), ErrSyntax)
        ELSE IF At(str, nxt) = ":" THEN makeOffsetedLength(str, nxt, name, off.n)
        ELSE Parsed(offsetExp(name, off.n, 0, FALSE))

makeMatch(str, i0, name, suffix) ==
    LET check   == IF suffix THEN "%" ELSE "#"
        longest == i0 < Len(str) /\ At(str, i0) = check
        i       == IF longest THEN i0 + 1 ELSE i0
        end     == skipToNext(str, {"}"}, i)
    IN  IF i0 >= Len(str) THEN Panic
        ELSE IF end = -1 THEN Panic
        ELSE Parsed(match(name, manglePattern(Slice(str, i, end)), longest, suffix))

\* The for loop over the body of a "${" form, from position i.
RECURSIVE parseBraced(_, _, _)
parseBraced(str, o, i) ==
    IF i >= Len(str) THEN ParseError(constant(failed), ErrSwitch)
    ELSE LET c    == At(str, i)
             name == Slice(str, o + 2, i)
         IN  CASE c = "!" ->
                    IF i = o + 2
                    THEN Parsed(indirect(Slice(str, i + 1, findNextEnd(str, i))))
                    ELSE parseBraced(str, o, i + 1)
               [] c = "#" ->
                    IF i = o + 2
                    THEN Parsed(length(Slice(str, i + 1, findNextEnd(str, i))))
                    ELSE makeMatch(str, i + 1, name, FALSE)
               [] c = "%" -> makeMatch(str, i + 1, name, TRUE)
               [] c = ":" ->
                    IF i + 1 >= Len(str) THEN Panic
                    ELSE IF At(str, i + 1) = "-" THEN makeDefaulted(str, i + 2, name, FALSE)
                    ELSE IF At(str, i + 1) = "=" THEN makeAssigned(str, i + 2, name, FALSE)
                    ELSE IF At(str, i + 1) = "+" THEN makeAlternated(str, i + 2, name, FALSE)
                    ELSE makeOffseted(str, i, name)
               [] c = "-" -> makeDefaulted(str, i + 1, name, TRUE)
               [] c = "=" -> makeAssigned(str, i + 1, name, TRUE)
               [] c = "+" -> makeAlternated(str, i + 1, name, TRUE)
               [] c = "}" -> Parsed(normal(name))
               [] OTHER -> parseBraced(str, o, i + 1)

\* for p < l && nameConstituent(s[p]) { p++ }
RECURSIVE nameEnd(_, _)
nameEnd(str, p) ==
    IF p < Len(str) /\ nameConstituent(At(str, p)) THEN nameEnd(str, p + 1) ELSE p

parseExpansion(str, o) ==
    IF o >= Len(str) THEN Panic
    ELSE IF At(str, o) # "$" THEN ParseError(constant(failed), ErrFirst)
    ELSE IF o + 1 >= Len(str) THEN Panic
    ELSE IF parameterConstituent(At(str, o + 1))
         THEN Parsed(positional(Atoi(Slice(str, o + 1, o + 2)).n))
    ELSE IF nameConstituent(At(str, o + 1))
         THEN Parsed(normal(Slice(str, o + 1, nameEnd(str, o + 1))))
    ELSE IF At(str, o + 1) = "{" THEN parseBraced(str, o, o + 2)
    ELSE ParseError(constant(failed), ErrSwitch)

----------------------------------------------------------------------------
(* Driver *)

ErrorText == <<"A", "n", " ", "e", "r", "r", "o", "r", " ",
               "o", "c", "c", "u", "r", "r", "e", "d">>

Iter(to, off, nxt, acc, env, result) ==
    [pc |-> to, offset |-> off, next |-> nxt, parts |-> acc, e |-> env, ret |-> result]

\* parts = append(parts, exp.expand(e)), with offset = findNextEnd(s, next).
expandValue(str, nxt, acc, val) ==
    Iter("loop", findNextEnd(str, nxt), nxt, acc \o val.out, val.env, <<>>)

\* The loop body that skips a site the parser rejects instead of returning.
expandParsedSkipError(str, env, argv, off, nxt, acc, exp) ==
    IF exp.kind = "panic" THEN Iter("panic", off, nxt, acc, env, <<>>)
    ELSE IF exp.kind = "err" THEN Iter("loop", findNextEnd(str, nxt), nxt, acc, env, <<>>)
    ELSE expandValue(str, nxt, acc, expansion_expand(exp.exp, env, argv))

\* The loop body once exp, err := parseExpansion(s, next) is known.
expandParsed(str, env, argv, off, nxt, acc, exp) ==
    IF exp.kind = "panic" THEN Iter("panic", off, nxt, acc, env, <<>>)
    ELSE IF exp.kind = "err" THEN Iter("error", off, nxt, acc, env, ErrorText)
    ELSE expandValue(str, nxt, acc, expansion_expand(exp.exp, env, argv))

\* The loop body that forgets the text after the last site.
expandAtNoTail(str, env, argv, off, acc, nxt) ==
    IF nxt = -1 THEN Iter("done", off, nxt, acc, env, acc)
    ELSE expandParsed(str, env, argv, off, nxt, acc \o Slice(str, off, nxt),
                      parseExpansion(str, nxt))

\* The loop body once next := findNextStart(s, offset) is known.
expandAt(str, env, argv, off, acc, nxt) ==
    IF nxt = -1
    THEN Iter("done", off, nxt, acc \o SliceFrom(str, off), env, acc \o SliceFrom(str, off))
    ELSE expandParsed(str, env, argv, off, nxt, acc \o Slice(str, off, nxt),
                      parseExpansion(str, nxt))

\* One iteration of expand's loop, from cursor off with acc assembled: where
\* it leaves the call ("loop": another iteration follows; "done": returned
\* the joined parts; "error": returned the error; "panic": crashed).
expandIter(str, env, argv, off, acc) ==
    expandAt(str, env, argv, off, acc, findNextStart(str, off))

\* The rest of the call after one iteration.
RECURSIVE expandFrom(_, _, _, _, _)
expandRest(str, argv, it) ==
    IF it.pc = "loop" THEN expandFrom(str, it.e, argv, it.offset, it.parts) ELSE it

\* The whole call, from cursor off with acc assembled.
expandFrom(str, env, argv, off, acc) ==
    expandRest(str, argv, expandIter(str, env, argv, off, acc))

expand(str, env, argv) == expandFrom(str, env, argv, 0, <<>>)

----------------------------------------------------------------------------
(* Bounds and the inputs they span *)

MaxStartLen == 4

MaxValLen == 3

MaxOff == 4

MaxMatchLen == 2

MaxPatLen == 3

MaxWordLen == 2

MaxLitLen == 3

NoNode == constant(<<>>)

NameA == <<"a">>

NameB == <<"b">>

Names == {NameA, NameB}

ProgArgs == <<<<"e", "n", "v">>, <<"z">>>>

\* Every environment that sets some of names to values of vals.
Envs(names, vals) ==
    UNION {[dom -> vals] : dom \in SUBSET names}

StartTexts == SeqsUpTo({"a", "$", "\\"}, MaxStartLen)

OffsetNodes ==
    {offsetExp(NameA, off, len, useLen) :
        off \in (0 - MaxOff)..MaxOff, len \in (0 - MaxOff)..MaxOff, useLen \in BOOLEAN}

OffsetEnvs == Envs({NameA}, SeqsUpTo({"a", "b"}, MaxValLen))

MatchNodes ==
    {match(NameA, manglePattern(raw), longest, suffix) :
        raw \in SeqsUpTo({"a", "b", "*", "?", "[", "]", "!", "\\"}, MaxPatLen),
        longest \in BOOLEAN, suffix \in BOOLEAN}

MatchEnvs == Envs({NameA}, SeqsUpTo({"a", "b"}, MaxMatchLen))

WordNodes ==
    {constant(<<>>), constant(<<"w">>), normal(NameB), assign(NameB, constant(<<"w">>), TRUE)}

AssignNodes ==
    {[type |-> ty, name |-> NameA, word |-> word, unset |-> unset] :
        ty \in {"defaulted", "assign", "alternate"}, word \in WordNodes, unset \in BOOLEAN}

SmallEnvs == Envs(Names, {<<>>, <<"v">>})

\* The words that are plain text: no "}" inside, no "$" in front.
LitWords ==
    {w \in SeqsUpTo({"w", "2", ":", "-", "$"}, MaxWordLen) : w = <<>> \/ w[1] # "$"}

Brace(body) == (<<"$", "{">> \o body) \o <<"}">>

WordOps == {<<":", "-">>, <<"-">>, <<":", "=">>, <<"=">>, <<":", "+">>, <<"+">>}

WordForms == {Brace((n \o op) \o w) : n \in Names, op \in WordOps, w \in LitWords}

DefaultForms ==
    {Brace((n \o op) \o w) : n \in Names, op \in {<<":", "-">>, <<"-">>}, w \in LitWords}

OtherForms ==
    {Brace((NameA \o op) \o w) :
        op \in WordOps, w \in {<<"v">>, <<"$", "b">>, <<"$", "{", "b", "}">>, <<"{", "w">>}}
    \cup
    {<<"$", "a">>, <<"$", "a", "b">>, <<"$", "1">>, <<"$", "0">>, <<"$", " ">>, <<"$", "-">>,
     Brace(<<"a">>), Brace(<<"!", "a">>), Brace(<<"#", "a">>), Brace(<<"a", "!", "b">>),
     Brace(<<"a", ":", "1">>), Brace(<<"a", ":", "0", ":", "1">>),
     Brace(<<"a", ":", " ", "-", "1">>), Brace(<<"a", ":", "x">>),
     Brace(<<"a", ":", "1", ":", "x">>), Brace(<<"a", ":", ":", "1">>),
     Brace(<<"a", "#", "v">>), Brace(<<"a", "#", "#", "*">>),
     Brace(<<"a", "%", "v">>), Brace(<<"a", "%", "%", "[", "!", "a", "]">>),
     Brace(<<"a", "%", "[">>)}

Prefixes(forms) == UNION {{SubSeq(f, 1, k) : k \in 1..Len(f)} : f \in forms}

Sites == Prefixes(DefaultForms \cup OtherForms)

Befores == {<<>>, <<"x">>, <<"\\">>, Brace(<<"b", ":", "=", "v">>)}

Afters == {<<>>, <<"x">>, <<"$", "b">>, Brace(<<"b", ":", "=", "v">>)}

LiteralTexts == SeqsUpTo({"x", "\\", "{", "}"}, MaxLitLen)

DriverTexts ==
    LiteralTexts \cup {(pre \o site) \o suf : pre \in Befores, site \in Sites, suf \in Afters}

----------------------------------------------------------------------------
(* The operations as actions *)

Idle ==
    /\ args = ProgArgs
    /\ next = -1
    /\ parts = <<>>
    /\ ret = <<>>

\* next := findNextStart(s, offset)
FindStart ==
    /\ pc = "call"
    /\ next' = findNextStart(s, offset)
    /\ pc' = "done"
    /\ UNCHANGED <<s, e, args, node, offset, parts, ret>>

\* ret := node.expand(e)
Evaluate ==
    /\ pc = "call"
    /\ \E val \in {expansion_expand(node, e, args)} :
           /\ ret' = val.out
           /\ e' = val.env
    /\ pc' = "done"
    /\ UNCHANGED <<s, args, node, offset, next, parts>>

\* node, err := parseExpansion(s, 0)
Parse ==
    /\ pc = "call"
    /\ \E exp \in {parseExpansion(s, 0)} :
           /\ node' = exp.exp
           /\ pc' = CASE exp.kind = "ok" -> "done"
                      [] exp.kind = "err" -> "error"
                      [] OTHER -> "panic"
    /\ UNCHANGED <<s, e, args, offset, next, parts, ret>>

\* What one iteration of the loop of expand(s, e) leaves behind.
Leave(it) ==
    /\ pc' = it.pc
    /\ offset' = it.offset
    /\ next' = it.next
    /\ parts' = it.parts
    /\ e' = it.e
    /\ ret' = it.ret
    /\ UNCHANGED <<s, args, node>>

\* An iteration that expands one site and goes round again.
Step ==
    /\ pc = "loop"
    /\ \E it \in {expandIter(s, e, args, offset, parts)} : it.pc = "loop" /\ Leave(it)

\* The last iteration: no further site, return strings.Join(parts, "").
Finish ==
    /\ pc = "loop"
    /\ \E it \in {expandIter(s, e, args, offset, parts)} : it.pc = "done" /\ Leave(it)

\* An iteration whose parseExpansion returns an error: return it.
Fail ==
    /\ pc = "loop"
    /\ \E it \in {expandIter(s, e, args, offset, parts)} : it.pc = "error" /\ Leave(it)

\* An iteration whose parseExpansion indexes or slices outside s: panic.
Crash ==
    /\ pc = "loop"
    /\ \E it \in {expandIter(s, e, args, offset, parts)} : it.pc = "panic" /\ Leave(it)

InitStart ==
    /\ s \in StartTexts
    /\ Idle /\ e = <<>> /\ node = NoNode /\ pc = "call"
    /\ offset \in 0..Len(s)

SpecStart == InitStart /\ [][FindStart]_vars

InitOffset ==
    /\ s = <<>> /\ offset = 0 /\ Idle /\ pc = "call"
    /\ node \in OffsetNodes
    /\ e \in OffsetEnvs

SpecOffset == InitOffset /\ [][Evaluate]_vars

InitMatch ==
    /\ s = <<>> /\ offset = 0 /\ Idle /\ pc = "call"
    /\ node \in MatchNodes
    /\ e \in MatchEnvs

SpecMatch == InitMatch /\ [][Evaluate]_vars

InitAssign ==
    /\ s = <<>> /\ offset = 0 /\ Idle /\ pc = "call"
    /\ node \in AssignNodes
    /\ e \in SmallEnvs

SpecAssign == InitAssign /\ [][Evaluate]_vars

InitParse ==
    /\ s \in Prefixes(WordForms)
    /\ offset = 0 /\ Idle /\ e = <<>> /\ node = NoNode /\ pc = "call"

SpecParse == InitParse /\ [][Parse]_vars

Init ==
    /\ s \in DriverTexts
    /\ e \in SmallEnvs
    /\ offset = 0 /\ Idle /\ node = NoNode /\ pc = "loop"

Next == Step \/ Finish \/ Fail \/ Crash

Spec == Init /\ [][Next]_vars

----------------------------------------------------------------------------
(* findNextStart *)

\* Position p is the one character consumed in the escaped state by the scan
\* that starts in the normal state at from.
RECURSIVE Escaped(_, _, _)
Escaped(str, from, p) ==
    /\ p > from
    /\ At(str, p - 1) = "\\"
    /\ ~Escaped(str, from, p - 1)

UnescapedDollars(str, from) ==
    {p \in from..(Len(str) - 1) : At(str, p) = "$" /\ ~Escaped(str, from, p)}

\* C7: findNextStart(text, fromOffset) returns the smallest position at or
\* after fromOffset that holds a "$" the scan reaches in its normal state,
\* and -1 when there is none; the character after an unescaped backslash is
\* never reported, and only that one character is skipped.
C7_FindStartSmallestUnescaped ==
    pc = "done" =>
        /\ (UnescapedDollars(s, offset) = {}) => next = -1
        /\ (UnescapedDollars(s, offset) # {}) =>
              /\ next \in UnescapedDollars(s, offset)
              /\ \A p \in UnescapedDollars(s, offset) : next <= p
        /\ next # -1 => ~(next > offset /\ Escaped(s, offset, next))

\* An escaped "$" was passed over and a later one was found.
C7_Witness ==
    /\ pc = "done"
    /\ next > offset + 1
    /\ \E p \in offset..(next - 1) : At(s, p) = "$" /\ Escaped(s, offset, p)

----------------------------------------------------------------------------
(* Offset *)

Min(a, b) == IF a < b THEN a ELSE b

OffsetBegin(l, start) == IF start >= 0 THEN start ELSE l + start

OffsetEnd(l, begin, o) ==
    Min(l, IF ~o.useLen THEN l ELSE IF o.length > 0 THEN begin + o.length ELSE l + o.length)

\* C3: evaluating an Offset on a value v of length l, with begin = start or
\* l + start (start < 0) and end = l, begin + length (length > 0) or
\* l + length, clamped to l: the result is empty when the name is absent,
\* when begin < 0 or when end < begin, and otherwise it is the bytes of v
\* from begin up to end, with 0 <= begin <= end <= l.  The store is as before.
C3_OffsetSubstring ==
    [][(pc = "call" /\ node.type = "offset") =>
          LET l     == Len(Get(e, node.name).v)
              begin == OffsetBegin(l, node.offset)
              end   == OffsetEnd(l, begin, node)
          IN  /\ e' = e
              /\ IF ~Get(e, node.name).ok \/ begin < 0 \/ end < begin
                 THEN ret' = <<>>
                 ELSE /\ 0 <= begin /\ begin <= end /\ end <= l
                      /\ Len(ret') = end - begin
                      /\ \A k \in 1..(end - begin) : ret'[k] = e[node.name][begin + k]
    ]_vars

\* A negative start and a negative length cut a proper, non-empty substring.
C3_Witness ==
    /\ pc = "done"
    /\ node.type = "offset"
    /\ node.offset < 0 /\ node.useLen /\ node.length < 0
    /\ node.name \in DOMAIN e
    /\ ret # <<>>
    /\ Len(ret) < Len(e[node.name]) - 1

----------------------------------------------------------------------------
(* Assign *)

\* C1: an Assign is triggered exactly when a Defaulted with the same name,
\* word and flag is (name absent, or present and empty for the ":=" form);
\* triggered, it returns the word's value v and leaves name set to v; not
\* triggered, it returns the stored value and leaves the store as it was.
C1_AssignTriggersLikeDefaulted ==
    [][(pc = "call" /\ node.type = "assign") =>
          LET got       == Get(e, node.name)
              triggered == ~got.ok \/ (~node.unset /\ got.v = <<>>)
              word      == expansion_expand(node.word, e, args)
          IN  /\ ret' = defaulted_expand([node EXCEPT !.type = "defaulted"], e, args).out
              /\ IF triggered
                 THEN ret' = word.out /\ Get(e', node.name) = [v |-> word.out, ok |-> TRUE]
                 ELSE ret' = got.v /\ e' = e
    ]_vars

----------------------------------------------------------------------------
(* Match *)

MatchPart(m, v, o) == IF m.suffix THEN SliceFrom(v, o) ELSE Slice(v, 0, o)

MatchRest(m, v, o) == IF m.suffix THEN Slice(v, 0, o) ELSE SliceFrom(v, o)

\* The candidate offsets 0..l at which the glob matches.
Hits(m, v) == {o \in 0..Len(v) : Match(m.pattern, MatchPart(m, v, o)).matched}

\* The matcher reports a pattern error at some candidate offset.
Malformed(m, v) == \E o \in 0..Len(v) : Match(m.pattern, MatchPart(m, v, o)).err

\* Smallest hit for suffix+longest and prefix+shortest, largest otherwise.
ChosenHit(m, v) ==
    IF m.suffix = m.longest
    THEN CHOOSE o \in Hits(m, v) : \A h \in Hits(m, v) : o <= h
    ELSE CHOOSE o \in Hits(m, v) : \A h \in Hits(m, v) : o >= h

\* C4: with the name present and a well-formed glob that matches at some
\* candidate offset in 0..l, a Match returns v[o:] (prefix) or v[:o]
\* (suffix) for the smallest such o (prefix+shortest, suffix+longest) or
\* the largest (prefix+longest, suffix+shortest); so "${name#pattern}" is
\* empty when only the whole value matches.
C4_MatchTrimsAtChosenOffset ==
    [][(/\ pc = "call" /\ node.type = "match"
        /\ node.name \in DOMAIN e
        /\ ~Malformed(node, e[node.name])
        /\ Hits(node, e[node.name]) # {}) =>
          ret' = MatchRest(node, e[node.name], ChosenHit(node, e[node.name]))
    ]_vars

\* C8: with the name present, a Match whose glob matches at no candidate
\* offset, or whose glob is malformed, returns the stored value unchanged.
C8_MatchKeepsValue ==
    [][(/\ pc = "call" /\ node.type = "match"
        /\ node.name \in DOMAIN e
        /\ (Malformed(node, e[node.name]) \/ Hits(node, e[node.name]) = {})) =>
          ret' = e[node.name]
    ]_vars

----------------------------------------------------------------------------
(* Words *)

WordType(op) ==
    CASE op \in {<<":", "-">>, <<"-">>} -> "defaulted"
      [] op \in {<<":", "=">>, <<"=">>} -> "assign"
      [] OTHER -> "alternate"

\* C9: for Defaulted, Assign and Alternate, bare or with ":", a word that
\* does not start with "$" is parsed as the Constant of the whole text from
\* the word's first character up to the closing "}".
C9_LiteralWordIsWholeText ==
    pc # "call" =>
        \A n \in Names, op \in WordOps, w \in LitWords :
            s = Brace((n \o op) \o w) =>
                /\ pc = "done"
                /\ node.type = WordType(op)
                /\ node.name = n
                /\ node.unset = (Len(op) = 1)
                /\ node.word = constant(w)

----------------------------------------------------------------------------
(* expand *)

NoDollar(str) == \A i \in 1..Len(str) : str[i] # "$"

\* The site the loop reaches next from cursor off: the first unescaped "$".
NextSite(str, off) ==
    IF UnescapedDollars(str, off) = {} THEN -1
    ELSE CHOOSE p \in UnescapedDollars(str, off) : \A q \in UnescapedDollars(str, off) : p <= q

\* The site at p is unrecognized syntax: the character after "$" is no
\* digit, no name character and no "{", or the body of "${" runs to the end
\* of the text without "}" and without an operator.
Unrecognized(str, p) ==
    /\ p >= 0
    /\ p + 1 < Len(str)
    /\ \/ At(str, p + 1) \notin (Upper \cup Lower \cup Digits \cup {"{"})
       \/ /\ At(str, p + 1) = "{"
          /\ \A i \in (p + 2)..(Len(str) - 1) :
                /\ At(str, i) \notin {"#", "%", ":", "-", "=", "+", "}"}
                /\ ~(i = p + 2 /\ At(str, i) = "!")

\* C5: when the site the loop reaches is unrecognized syntax, expand returns
\* an error there: the loop ends at that site, the store is not touched
\* again, the value returned is the placeholder and not the text assembled,
\* and nothing happens after the return.
C5_UnrecognizedSiteAborts ==
    [][/\ pc # "error"
       /\ (pc = "loop" /\ Unrecognized(s, NextSite(s, offset))) =>
             /\ pc' = "error"
             /\ next' = NextSite(s, offset)
             /\ ret' = ErrorText /\ ret' # parts'
             /\ e' = e
    ]_vars

\* An error at a site that follows an expanded one and precedes another "$".
C5_Witness ==
    /\ pc = "error"
    /\ Unrecognized(s, next)
    /\ offset > 0 /\ parts # <<>>
    /\ \E p \in (next + 1)..(Len(s) - 1) : At(s, p) = "$"
    /\ NameB \in DOMAIN e

\* C6: a text without "$", backslashes or not, is returned as it is, with
\* no error and the store untouched; and expanding again a result that has
\* no "$" returns that result and leaves the store untouched.
C6_LiteralTextIsFixedPoint ==
    [][pc = "loop" =>
          /\ NoDollar(s) => (pc' = "done" /\ ret' = s /\ e' = e)
          /\ (pc' = "done" /\ NoDollar(ret')) =>
                /\ expand(ret', e', args).pc = "done"
                /\ expand(ret', e', args).ret = ret'
                /\ expand(ret', e', args).e = e'
    ]_vars

\* A text of backslashes and braces came back unchanged.
C6_Witness ==
    /\ pc = "done"
    /\ NoDollar(s) /\ Len(s) = MaxLitLen
    /\ \E i \in 1..Len(s) : s[i] = "\\"
    /\ ret = s

\* C2: "${name:-word}" with a plain word yields the word when name is absent
\* or empty and the stored value otherwise; "${name-word}" yields the word
\* only when name is absent and the stored value, empty or not, when it is
\* present; neither changes the store.  (Checked with plain text before and
\* after the site.)
C2_DefaultSubstitution ==
    [][\A pre \in {<<>>, <<"x">>}, suf \in {<<>>, <<"x">>}, n \in Names, colon \in BOOLEAN :
          LET head == (pre \o <<"$", "{">>) \o (n \o (IF colon THEN <<":", "-">> ELSE <<"-">>))
              tail == <<"}">> \o suf
              word == SubSeq(s, Len(head) + 1, Len(s) - Len(tail))
              got  == Get(e, n)
          IN  (/\ Len(s) >= Len(head) + Len(tail)
               /\ SubSeq(s, 1, Len(head)) = head
               /\ SubSeq(s, Len(s) - Len(tail) + 1, Len(s)) = tail
               /\ word \in LitWords) =>
                 /\ e' = e
                 /\ pc' \in {"loop", "done"}
                 /\ pc' = "done" =>
                       ret' = (pre \o (IF ~got.ok \/ (colon /\ got.v = <<>>)
                                       THEN word ELSE got.v)) \o suf
    ]_vars

\* "${a:-2:}" with a set but empty gave the word, between the plain texts.
C2_Witness ==
    /\ pc = "done"
    /\ s = (<<"x">> \o Brace(<<"a", ":", "-", "2", ":">>)) \o <<"x">>
    /\ NameA \in DOMAIN e /\ e[NameA] = <<>>
    /\ ret = <<"x", "2", ":", "x">>

\* C10: expand is total: every iteration either returns (a result or an
\* error) or moves the cursor forward within the text; no iteration reads
\* outside the text.
C10_ExpandIsTotal ==
    [][pc = "loop" =>
          /\ pc' \in {"loop", "done", "error"}
          /\ pc' = "loop" => (offset < offset' /\ offset' <= Len(s))
    ]_vars

============================================================================
